---------------------------- MODULE Spec2Model ----------------------------
(***************************************************************************)
(* Deployment API server (src/main.go): the bearer-token middleware, the   *)
(* /deploy upload handler and the ZIP template extractor, over an explicit *)
(* model of the filesystem.                                                *)
(*                                                                         *)
(* Strings are sequences of one-character strings, so that the string      *)
(* tests of the code (strings.Contains, strings.HasPrefix) and the lexical *)
(* path functions of path/filepath are computed, not assumed.              *)
(***************************************************************************)
EXTENDS Integers, Sequences, FiniteSets, TLC

-----------------------------------------------------------------------------
(* Strings *)

\* The characters request strings are built from.
Chars == {"/", ".", "a"}

RECURSIVE StringsUpTo(_)
\* Every string over Chars of length at most n.
StringsUpTo(n) ==
    IF n = 0 THEN {<<>>}
    ELSE LET shorter == StringsUpTo(n - 1)
         IN  shorter \cup {Append(s, c) : s \in {t \in shorter : Len(t) = n - 1}, c \in Chars}

\* strings.HasPrefix
HasPrefix(s, prefix) ==
    /\ Len(s) >= Len(prefix)
    /\ SubSeq(s, 1, Len(prefix)) = prefix

\* strings.TrimPrefix
TrimPrefix(s, prefix) ==
    IF HasPrefix(s, prefix) THEN SubSeq(s, Len(prefix) + 1, Len(s)) ELSE s

\* strings.Contains
Contains(s, substr) ==
    \E i \in 1..(Len(s) - Len(substr) + 1) : SubSeq(s, i, i + Len(substr) - 1) = substr

DotDot == <<".", ".">>

Separator == <<"/">>

-----------------------------------------------------------------------------
(* path/filepath, Unix flavour: lexical processing only *)

RECURSIVE SplitFrom(_, _, _)
\* The "/"-separated elements of s[i..], cur being the element read so far.
SplitFrom(s, i, cur) ==
    IF i > Len(s) THEN <<cur>>
    ELSE IF s[i] = "/" THEN <<cur>> \o SplitFrom(s, i + 1, <<>>)
    ELSE SplitFrom(s, i + 1, Append(cur, s[i]))

Split(s) == SplitFrom(s, 1, <<>>)

RECURSIVE CleanElems(_, _, _, _)
\* Clean's element loop: "" and "." are dropped, ".." backs up over the last
\* real element, is kept at the front of a relative path and is dropped at
\* the root.
CleanElems(elems, i, rooted, out) ==
    IF i > Len(elems) THEN out
    ELSE LET e == elems[i] IN
         IF e = <<>> \/ e = <<".">> THEN CleanElems(elems, i + 1, rooted, out)
         ELSE IF e = DotDot THEN
              IF Len(out) > 0 /\ out[Len(out)] # DotDot
                  THEN CleanElems(elems, i + 1, rooted, SubSeq(out, 1, Len(out) - 1))
              ELSE IF ~rooted THEN CleanElems(elems, i + 1, rooted, Append(out, e))
              ELSE CleanElems(elems, i + 1, rooted, out)
         ELSE CleanElems(elems, i + 1, rooted, Append(out, e))

RECURSIVE JoinElems(_)
JoinElems(elems) ==
    IF Len(elems) = 0 THEN <<>>
    ELSE IF Len(elems) = 1 THEN elems[1]
    ELSE elems[1] \o Separator \o JoinElems(Tail(elems))

\* filepath.Clean
Clean(path) ==
    IF path = <<>> THEN <<".">>
    ELSE LET rooted == path[1] = "/"
             out == CleanElems(Split(path), 1, rooted, <<>>)
             body == JoinElems(out)
         IN  IF rooted THEN Separator \o body
             ELSE IF body = <<>> THEN <<".">>
             ELSE body

\* filepath.Join of two elements: empty elements are ignored, the rest is
\* joined with "/" and cleaned; all empty gives "".
Join(a, b) ==
    IF a = <<>> /\ b = <<>> THEN <<>>
    ELSE IF a = <<>> THEN Clean(b)
    ELSE IF b = <<>> THEN Clean(a)
    ELSE Clean(a \o Separator \o b)

RECURSIVE StripTrailingSlashes(_)
StripTrailingSlashes(s) ==
    IF Len(s) > 0 /\ s[Len(s)] = "/" THEN StripTrailingSlashes(SubSeq(s, 1, Len(s) - 1))
    ELSE s

RECURSIVE LastSlash(_, _)
\* The index of the last "/" of s[1..i], 0 when there is none.
LastSlash(s, i) ==
    IF i = 0 THEN 0 ELSE IF s[i] = "/" THEN i ELSE LastSlash(s, i - 1)

\* filepath.Base
Base(path) ==
    IF path = <<>> THEN <<".">>
    ELSE LET p == StripTrailingSlashes(path)
             q == SubSeq(p, LastSlash(p, Len(p)) + 1, Len(p))
         IN  IF q = <<>> THEN Separator ELSE q

\* filepath.Dir
Dir(path) == Clean(SubSeq(path, 1, LastSlash(path, Len(path))))

-----------------------------------------------------------------------------
(* The filesystem *)

\* A path of the filesystem is an absolute, cleaned string.  A node is a
\* directory or a regular file; mode is the owner's permission digit
\* (4 read, 2 write, 1 search/execute), data a file's chunks in order.
DirNode(mode) == [kind |-> "dir", mode |-> mode, data |-> <<>>]

FileNode(mode, data) == [kind |-> "file", mode |-> mode, data |-> data]

HasW(mode) == (mode \div 2) % 2 = 1

HasX(mode) == mode % 2 = 1

\* A gap left by a write beyond the end of a file reads as zero bytes.
Hole == "0"

\* The elements of an absolute path.
Elems(path) == CleanElems(Split(path), 1, TRUE, <<>>)

Depth(path) == Len(Elems(path))

\* The path of the first k of elems.
PathOf(elems, k) == Separator \o JoinElems(SubSeq(elems, 1, k))

\* The ancestor of path with k elements (k = Depth(path): path itself).
PathPrefix(path, k) == PathOf(Elems(path), k)

Parent(path) == PathPrefix(path, Depth(path) - 1)

\* path is dir itself or lies below it.
Within(path, dir) ==
    /\ Depth(path) >= Depth(dir)
    /\ SubSeq(Elems(path), 1, Depth(dir)) = Elems(dir)

\* The process may look names up in directory d.
Searchable(f, priv, d) == priv \/ HasX(f[d].mode)

\* Every proper ancestor of path exists, is a directory and can be searched.
AncestorsOK(f, priv, path) ==
    LET elems == Elems(path) IN
    \A k \in 0..(Len(elems) - 1) :
        LET d == PathOf(elems, k)
        IN  /\ d \in DOMAIN f
            /\ f[d].kind = "dir"
            /\ Searchable(f, priv, d)

\* The result of a filesystem call: whether it succeeded, the filesystem it
\* leaves, and the paths it created or wrote.
FsResult(ok, f, made) == [ok |-> ok, fs |-> f, made |-> made]

RECURSIVE MkdirFrom(_, _, _, _, _, _)
\* os.MkdirAll from the ancestor with k elements down: an existing directory
\* is passed through (it must be searchable to go on), an existing file
\* fails, a missing directory is made with perm in its parent, which the
\* process must be able to write.  What was made before a failure stays.
MkdirFrom(f, priv, elems, perm, k, made) ==
    LET d == PathOf(elems, k)
        last == k = Len(elems)
    IN  IF d \in DOMAIN f THEN
            IF f[d].kind # "dir" THEN FsResult(FALSE, f, made)
            ELSE IF last THEN FsResult(TRUE, f, made)
            ELSE IF ~Searchable(f, priv, d) THEN FsResult(FALSE, f, made)
            ELSE MkdirFrom(f, priv, elems, perm, k + 1, made)
        ELSE IF ~(priv \/ HasW(f[PathOf(elems, k - 1)].mode)) THEN FsResult(FALSE, f, made)
        ELSE LET g == (d :> DirNode(perm)) @@ f
             IN  IF last THEN FsResult(TRUE, g, made \cup {d})
                 ELSE IF ~Searchable(g, priv, d) THEN FsResult(FALSE, g, made \cup {d})
                 ELSE MkdirFrom(g, priv, elems, perm, k + 1, made \cup {d})

\* os.MkdirAll(path, perm).  envOK = FALSE is a failure of the environment
\* (disk full, I/O error) at the first directory that has to be made.
MkdirAll(f, priv, path, perm, envOK) ==
    IF path \in DOMAIN f /\ f[path].kind = "dir" /\ AncestorsOK(f, priv, path)
        THEN FsResult(TRUE, f, {})
    ELSE IF ~envOK THEN FsResult(FALSE, f, {})
    ELSE MkdirFrom(f, priv, Elems(path), perm, 0, {})

\* os.OpenFile(path, O_WRONLY|O_CREATE|O_TRUNC, perm), which os.Create is with
\* perm 0666: an existing file is truncated and keeps its mode (the process
\* must be able to write it), a missing one is created with perm in a parent
\* the process can write; a directory cannot be opened for writing.
OpenFile(f, priv, path, perm, envOK) ==
    IF ~envOK THEN FsResult(FALSE, f, {})
    ELSE IF ~AncestorsOK(f, priv, path) THEN FsResult(FALSE, f, {})
    ELSE IF path \in DOMAIN f THEN
        IF f[path].kind = "dir" THEN FsResult(FALSE, f, {})
        ELSE IF ~(priv \/ HasW(f[path].mode)) THEN FsResult(FALSE, f, {})
        ELSE FsResult(TRUE, [f EXCEPT ![path].data = <<>>], {path})
    ELSE IF ~(priv \/ HasW(f[Parent(path)].mode)) THEN FsResult(FALSE, f, {})
    ELSE FsResult(TRUE, (path :> FileNode(perm, <<>>)) @@ f, {path})

\* A write that appends, whatever the descriptor's offset.
WriteAppend(data, off, chunk) == Append(data, chunk)

\* A write of one chunk through a descriptor at offset off (in chunks): the
\* file grows to hold it, and a gap before it is a hole.
WriteAt(data, off, chunk) ==
    [i \in 1..(IF Len(data) > off + 1 THEN Len(data) ELSE off + 1) |->
        IF i = off + 1 THEN chunk
        ELSE IF i <= Len(data) THEN data[i]
        ELSE Hole]

\* io.Copy of src into a freshly opened file at path, of which the first n
\* chunks get written (n < Len(src): the copy failed there).
CopyTo(f, path, src, n) ==
    [f EXCEPT ![path].data = SubSeq(src, 1, n) \o SubSeq(@, n + 1, Len(@))]

-----------------------------------------------------------------------------
(* State *)

\* The requests in flight: net/http runs each handler in its own goroutine.
Reqs == {1, 2}

VARIABLES
    config,      \* the Config read at startup (main.go:46)
    privileged,  \* the process overrides file permissions (runs as root)
    fs,          \* the filesystem: path -> node
    tmp,         \* the files of os.TempDir(): name -> content
    req,         \* req[r]: the request r
    pc,          \* pc[r]: where the handling of r stands
    loc,         \* loc[r]: the local variables of the handler of r
    resp,        \* resp[r]: the response written for r
    touched,     \* history: touched[r], the paths r created or wrote
    spilled,     \* history: the temp files made for r, by kind
    faulted,     \* history: an environment failure was injected
    overlap,     \* history: a file was created while a copy into it was under way
    run,         \* the extraction harness: the number of the current run
    first        \* the extraction harness: error and filesystem after run 1

vars == <<config, privileged, fs, tmp, req, pc, loc, resp, touched, spilled,
          faulted, overlap, run, first>>

\* No error.
Nil == [kind |-> "nil", name |-> <<>>]

IOFailure == [kind |-> "io", name |-> <<>>]

\* zip.OpenReader's error for a file that is no ZIP container.
NotZip == [kind |-> "zip: not a valid zip file", name |-> <<>>]

\* fmt.Errorf("illegal file path: %s", file.Name)
IllegalPath(name) == [kind |-> "illegal file path", name |-> name]

\* A response message: a format string and what fills it.
Message(text, n, exportType, deployPath, err) ==
    [text |-> text, n |-> n, exportType |-> exportType, deployPath |-> deployPath,
     err |-> err]

\* A message without arguments.
Text(text) == Message(text, 0, <<>>, <<>>, Nil)

\* The ResponseWriter before anything is written to it.
NoResponse ==
    [cors |-> FALSE, contentType |-> "", status |-> 0, success |-> FALSE,
     message |-> Message("", 0, <<>>, <<>>, Nil), files |-> <<>>]

\* sendResponse (main.go:300-310): the Content-Type, the status code and the
\* Response envelope.
sendResponse(w, success, message, statusCode) ==
    [w EXCEPT !.contentType = "application/json", !.status = statusCode,
              !.success = success, !.message = message]

NoLocals ==
    [next |-> "", exportType |-> <<>>, relativePath |-> <<>>, deployPath |-> <<>>,
     zi |-> 0, err |-> Nil, fi |-> 0, off |-> 0, targetPath |-> <<>>,
     processedFiles |-> <<>>, outcome |-> <<>>]

\* The temp file names of request r.
TemplateTemp(r) == <<"template", r>>

MultipartTemp(r) == <<"multipart", r>>

-----------------------------------------------------------------------------
(* extractZip (main.go:386-448) *)

\* A zip.File: its name, the owner's permission digit of its mode, its
\* uncompressed data.
Entry(name, mode, data) == [Name |-> name, Mode |-> mode, Data |-> data]

\* What the uploaded bytes are: a ZIP container with its entries in stored
\* order, or something zip.OpenReader rejects.
Archive(entries) == [valid |-> TRUE, File |-> entries]

Malformed == [valid |-> FALSE, File |-> <<>>]

\* An archive entry is a directory when its name ends in "/"
\* (file.FileInfo().IsDir()).
IsDir(file) == Len(file.Name) > 0 /\ file.Name[Len(file.Name)] = "/"

\* The check without the separator after destDir: destDir itself passes.
PathAllowedNoSeparator(path, destDir) == HasPrefix(path, Clean(destDir))

\* The directory traversal check of line 405.
PathAllowed(path, destDir) == HasPrefix(path, Clean(destDir) \o Separator)

\* The outcome of one turn of the loop over reader.File.
EntryResult(err, f, made) == [err |-> err, fs |-> f, made |-> made]

\* One turn of the loop of lines 400-445 for the entry file.  fault names the
\* call the environment fails in this turn ("none": no call), n the chunks a
\* failing copy still writes.
ExtractEntry(f, priv, destDir, file, fault, n) ==
    LET path == Join(destDir, file.Name)
    IN  IF ~PathAllowed(path, destDir) THEN EntryResult(IllegalPath(file.Name), f, {})
        ELSE IF IsDir(file) THEN
            LET d == MkdirAll(f, priv, path, file.Mode, fault # "mkdir")
            IN  EntryResult(IF d.ok THEN Nil ELSE IOFailure, d.fs, d.made)
        ELSE
            LET d == MkdirAll(f, priv, Dir(path), 7, fault # "mkdir")
            IN  IF ~d.ok THEN EntryResult(IOFailure, d.fs, d.made)
                ELSE IF fault = "open" THEN EntryResult(IOFailure, d.fs, d.made)
                ELSE
                    LET w == OpenFile(d.fs, priv, path, file.Mode, fault # "create")
                    IN  IF ~w.ok THEN EntryResult(IOFailure, w.fs, d.made)
                        ELSE IF fault = "copy"
                            THEN EntryResult(IOFailure, CopyTo(w.fs, path, file.Data, n),
                                             d.made \cup w.made)
                        ELSE EntryResult(Nil, CopyTo(w.fs, path, file.Data, Len(file.Data)),
                                         d.made \cup w.made)

\* The calls the environment can fail in one turn of the loop.
Faults == {"none", "mkdir", "open", "create", "copy"}

\* The chunk counts a copy of data that fails under fault can have written.
FailPoints(fault, data) == IF fault = "copy" THEN 0..(Len(data) - 1) ELSE {0}

\* Lines 387-397: open the ZIP file, make sure destDir exists.
extractZipOpen(r) ==
    /\ pc[r] = "extractZip"
    /\ \E envOK \in BOOLEAN :
        LET zipFile == tmp[TemplateTemp(r)]
            d == MkdirAll(fs, privileged, loc[r].deployPath, 7, envOK)
        IN  /\ faulted' = (faulted \/ (zipFile.valid /\ ~d.ok /\ ~envOK))
            /\ IF ~zipFile.valid THEN
                   /\ loc' = [loc EXCEPT ![r].err = NotZip]
                   /\ pc' = [pc EXCEPT ![r] = "extracted"]
                   /\ UNCHANGED <<fs, touched>>
               ELSE
                   /\ fs' = d.fs
                   /\ touched' = [touched EXCEPT ![r] = @ \cup d.made]
                   /\ IF ~d.ok THEN
                          /\ loc' = [loc EXCEPT ![r].err = IOFailure]
                          /\ pc' = [pc EXCEPT ![r] = "extracted"]
                      ELSE IF Len(zipFile.File) = 0 THEN
                          /\ loc' = [loc EXCEPT ![r].err = Nil]
                          /\ pc' = [pc EXCEPT ![r] = "extracted"]
                      ELSE
                          /\ loc' = [loc EXCEPT ![r].err = Nil, ![r].zi = 1]
                          /\ pc' = [pc EXCEPT ![r] = "entry"]
    /\ UNCHANGED <<config, privileged, tmp, req, resp, spilled, overlap, run, first>>

\* Lines 400-447: one entry of the archive, in stored order; the first error
\* returns, the end of the archive returns nil.
extractZipEntry(r) ==
    /\ pc[r] = "entry"
    /\ LET zipFile == tmp[TemplateTemp(r)]
           file == zipFile.File[loc[r].zi]
       IN  \E fault \in Faults : \E n \in FailPoints(fault, file.Data) :
            LET e == ExtractEntry(fs, privileged, loc[r].deployPath, file, fault, n)
            IN  /\ fs' = e.fs
                /\ touched' = [touched EXCEPT ![r] = @ \cup e.made]
                /\ faulted' = (faulted \/ e # ExtractEntry(fs, privileged, loc[r].deployPath,
                                                           file, "none", 0))
                /\ IF e.err # Nil THEN
                       /\ loc' = [loc EXCEPT ![r].err = e.err]
                       /\ pc' = [pc EXCEPT ![r] = "extracted"]
                   ELSE IF loc[r].zi = Len(zipFile.File) THEN
                       /\ loc' = [loc EXCEPT ![r].zi = @ + 1]
                       /\ pc' = [pc EXCEPT ![r] = "extracted"]
                   ELSE
                       /\ loc' = [loc EXCEPT ![r].zi = @ + 1]
                       /\ pc' = [pc EXCEPT ![r] = "entry"]
    /\ UNCHANGED <<config, privileged, tmp, req, resp, spilled, overlap, run, first>>

-----------------------------------------------------------------------------
(* authenticateMiddleware (main.go:97-130) *)

RECURSIVE Xor(_, _)
\* x ^ y on bytes.
Xor(x, y) ==
    IF x = 0 /\ y = 0 THEN 0
    ELSE (((x % 2) + (y % 2)) % 2) + 2 * Xor(x \div 2, y \div 2)

RECURSIVE Or(_, _)
\* x | y on bytes.
Or(x, y) ==
    IF x = 0 /\ y = 0 THEN 0
    ELSE (IF (x % 2) + (y % 2) > 0 THEN 1 ELSE 0) + 2 * Or(x \div 2, y \div 2)

RECURSIVE XorFold(_, _, _, _)
\* The loop of subtle.ConstantTimeCompare: v |= x[i] ^ y[i] for every i.
XorFold(x, y, i, v) ==
    IF i > Len(x) THEN v ELSE XorFold(x, y, i + 1, Or(v, Xor(x[i], y[i])))

\* A comparison whose loop starts one byte late.
ConstantTimeCompareFromSecond(x, y) ==
    IF Len(x) # Len(y) THEN 0
    ELSE IF XorFold(x, y, 2, 0) = 0 THEN 1 ELSE 0

\* subtle.ConstantTimeCompare: 1 if x and y have equal contents, 0 otherwise,
\* and 0 at once when the lengths differ.
ConstantTimeCompare(x, y) ==
    IF Len(x) # Len(y) THEN 0
    ELSE IF XorFold(x, y, 1, 0) = 0 THEN 1 ELSE 0

\* "Bearer " as bytes.
Bearer == <<66, 101, 97, 114, 101, 114, 32>>

\* The handlers main registers (main.go:69-71).
Handler(path) ==
    IF path = "/deploy" THEN "handleDeploy"
    ELSE IF path = "/health" THEN "handleHealth"
    ELSE "handleInfo"

authenticateMiddleware(r) ==
    /\ pc[r] = "authenticate"
    /\ LET w == IF config.AllowedOrigins # <<>> THEN [resp[r] EXCEPT !.cors = TRUE]
                ELSE resp[r]
           authHeader == req[r].Authorization
           token == TrimPrefix(authHeader, Bearer)
       IN  IF req[r].Method = "OPTIONS" THEN
               /\ resp' = [resp EXCEPT ![r] = [w EXCEPT !.status = 200]]
               /\ pc' = [pc EXCEPT ![r] = "done"]
               /\ UNCHANGED loc
           ELSE IF ~HasPrefix(authHeader, Bearer) THEN
               /\ resp' = [resp EXCEPT ![r] =
                              sendResponse(w, FALSE, Text("Invalid authentication"), 401)]
               /\ pc' = [pc EXCEPT ![r] = "done"]
               /\ UNCHANGED loc
           ELSE IF ConstantTimeCompare(token, config.AuthToken) # 1 THEN
               /\ resp' = [resp EXCEPT ![r] = sendResponse(w, FALSE, Text("Invalid token"), 401)]
               /\ pc' = [pc EXCEPT ![r] = "done"]
               /\ UNCHANGED loc
           ELSE
               /\ resp' = [resp EXCEPT ![r] = w]
               /\ pc' = [pc EXCEPT ![r] = Handler(req[r].path)]
               /\ loc' = [loc EXCEPT ![r].next = Handler(req[r].path)]
    /\ UNCHANGED <<config, privileged, fs, tmp, req, touched, spilled, faulted,
                   overlap, run, first>>

\* handleHealth (main.go:133-135)
handleHealth(r) ==
    /\ pc[r] = "handleHealth"
    /\ resp' = [resp EXCEPT ![r] = sendResponse(@, TRUE, Text("Server is running properly"), 200)]
    /\ pc' = [pc EXCEPT ![r] = "done"]
    /\ UNCHANGED <<config, privileged, fs, tmp, req, loc, touched, spilled,
                   faulted, overlap, run, first>>

\* handleInfo (main.go:138-147): the info object, with the implicit status 200.
handleInfo(r) ==
    /\ pc[r] = "handleInfo"
    /\ resp' = [resp EXCEPT ![r] =
                   [@ EXCEPT !.contentType = "application/json", !.status = 200,
                             !.message = Message("info", 0, <<>>, config.DeploymentPath, Nil)]]
    /\ pc' = [pc EXCEPT ![r] = "done"]
    /\ UNCHANGED <<config, privileged, fs, tmp, req, loc, touched, spilled,
                   faulted, overlap, run, first>>

-----------------------------------------------------------------------------
(* handleDeploy (main.go:150-297) *)

\* Lines 151-154: only POST is served.
handleDeployMethod(r) ==
    /\ pc[r] = "handleDeploy"
    /\ IF req[r].Method # "POST" THEN
           /\ resp' = [resp EXCEPT ![r] = sendResponse(@, FALSE, Text("Method not allowed"), 405)]
           /\ pc' = [pc EXCEPT ![r] = "done"]
       ELSE
           /\ pc' = [pc EXCEPT ![r] = "ParseMultipartForm"]
           /\ UNCHANGED resp
    /\ UNCHANGED <<config, privileged, fs, tmp, req, loc, touched, spilled,
                   faulted, overlap, run, first>>

\* The maxMemory argument of r.ParseMultipartForm: 100 << 20.
MaxMemory == 104857600

\* The file parts of the body in the order ParseMultipartForm reads them.
FileParts(q) ==
    (IF q.template_zip.present THEN <<q.template_zip.Size>> ELSE <<>>)
        \o [i \in 1..Len(q.files) |-> q.files[i].Size]

RECURSIVE Spills(_, _, _)
\* multipart.Reader.ReadForm: a file part is kept in memory while it fits in
\* what is left of maxMemory; one that does not fit is written to a temp file
\* of os.TempDir().  TRUE when some part of sizes[i..] is written to disk.
Spills(sizes, i, budget) ==
    IF i > Len(sizes) THEN FALSE
    ELSE IF sizes[i] > budget THEN TRUE
    ELSE Spills(sizes, i + 1, budget - sizes[i])

\* Line 157: r.ParseMultipartForm(100 << 20), its error ignored.  A body that
\* is not multipart/form-data leaves r.MultipartForm nil.  The temp file of
\* a part that did not fit stays until net/http removes it, after the handler
\* has returned.
ParseMultipartForm(r) ==
    /\ pc[r] = "ParseMultipartForm"
    /\ IF req[r].multipart /\ Spills(FileParts(req[r]), 1, MaxMemory) THEN
           /\ tmp' = (MultipartTemp(r) :> Malformed) @@ tmp
           /\ spilled' = [spilled EXCEPT ![r] = @ \cup {"multipart"}]
       ELSE UNCHANGED <<tmp, spilled>>
    /\ pc' = [pc EXCEPT ![r] = "resolve"]
    /\ UNCHANGED <<config, privileged, fs, req, loc, resp, touched, faulted,
                   overlap, run, first>>

\* Lines 160-166: the export type of the request, of the configuration, or hugo.
ExportTypeOf(q, cfg) ==
    IF q.export_type # <<>> THEN q.export_type
    ELSE IF cfg.ExportType # <<>> THEN cfg.ExportType
    ELSE <<"h", "u", "g", "o">>

\* A validation that looks for ".." at the start only.
ValidRelativePathLeading(relativePath) == ~HasPrefix(relativePath, DotDot)

\* Line 175: the validation of relative_path.
ValidRelativePath(relativePath) == ~Contains(relativePath, DotDot)

\* Lines 172-180: the deployment path of a request that passed validation.
DeployPath(cfg, exportType, relativePath) ==
    IF relativePath # <<>>
        THEN Join(Join(cfg.DeploymentPath, exportType), relativePath)
    ELSE Join(cfg.DeploymentPath, exportType)

\* Lines 159-180.
handleDeployResolve(r) ==
    /\ pc[r] = "resolve"
    /\ LET exportType == ExportTypeOf(req[r], config)
           relativePath == req[r].relative_path
       IN  IF relativePath # <<>> /\ ~ValidRelativePath(relativePath) THEN
               /\ resp' = [resp EXCEPT ![r] =
                              sendResponse(@, FALSE, Text("Invalid relative path"), 400)]
               /\ pc' = [pc EXCEPT ![r] = "done"]
               /\ loc' = [loc EXCEPT ![r].exportType = exportType,
                                     ![r].relativePath = relativePath]
           ELSE
               /\ loc' = [loc EXCEPT ![r].exportType = exportType,
                                     ![r].relativePath = relativePath,
                                     ![r].deployPath =
                                         DeployPath(config, exportType, relativePath)]
               /\ pc' = [pc EXCEPT ![r] = "MkdirAll"]
               /\ UNCHANGED resp
    /\ UNCHANGED <<config, privileged, fs, tmp, req, touched, spilled, faulted,
                   overlap, run, first>>

\* Lines 183-187: os.MkdirAll(deployPath, 0755).
handleDeployMkdir(r) ==
    /\ pc[r] = "MkdirAll"
    /\ \E envOK \in BOOLEAN :
        LET d == MkdirAll(fs, privileged, loc[r].deployPath, 7, envOK)
        IN  /\ fs' = d.fs
            /\ touched' = [touched EXCEPT ![r] = @ \cup d.made]
            /\ faulted' = (faulted \/ (~envOK /\ ~d.ok))
            /\ IF ~d.ok THEN
                   /\ resp' = [resp EXCEPT ![r] =
                                  sendResponse(@, FALSE,
                                      Message("Error creating deployment directory: %v",
                                              0, <<>>, <<>>, IOFailure), 500)]
                   /\ pc' = [pc EXCEPT ![r] = "done"]
               ELSE
                   /\ pc' = [pc EXCEPT ![r] = "init"]
                   /\ UNCHANGED resp
    /\ UNCHANGED <<config, privileged, tmp, req, loc, spilled, overlap, run, first>>

\* Template mode on the init flag alone.
IsInitRequestFlagOnly(q) == q.init = "true"

\* Lines 190-196: template mode needs init=true and a template_zip part:
\* r.FormFile returns an error without one, and without a multipart form.
IsInitRequest(q) == q.init = "true" /\ q.multipart /\ q.template_zip.present

handleDeployInit(r) ==
    /\ pc[r] = "init"
    /\ pc' = [pc EXCEPT ![r] = IF IsInitRequest(req[r]) THEN "TempFile" ELSE "files"]
    /\ UNCHANGED <<config, privileged, fs, tmp, req, loc, resp, touched, spilled,
                   faulted, overlap, run, first>>

\* Lines 202-219: the ZIP is copied into a temp file, which the deferred
\* os.Remove deletes when the handler returns.
handleDeployTempFile(r) ==
    /\ pc[r] = "TempFile"
    /\ \E fault \in {"none", "create", "copy"} :
        /\ faulted' = (faulted \/ fault # "none")
        /\ IF fault = "create" THEN
               /\ resp' = [resp EXCEPT ![r] =
                              sendResponse(@, FALSE,
                                  Message("Error creating temporary file: %v",
                                          0, <<>>, <<>>, IOFailure), 500)]
               /\ pc' = [pc EXCEPT ![r] = "done"]
               /\ UNCHANGED <<tmp, spilled>>
           ELSE IF fault = "copy" THEN
               /\ resp' = [resp EXCEPT ![r] =
                              sendResponse(@, FALSE,
                                  Message("Error copying ZIP file: %v",
                                          0, <<>>, <<>>, IOFailure), 500)]
               /\ pc' = [pc EXCEPT ![r] = "done"]
               /\ spilled' = [spilled EXCEPT ![r] = @ \cup {"template"}]
               /\ UNCHANGED tmp
           ELSE
               /\ tmp' = (TemplateTemp(r) :> req[r].template_zip.Content) @@ tmp
               /\ spilled' = [spilled EXCEPT ![r] = @ \cup {"template"}]
               /\ pc' = [pc EXCEPT ![r] = "extractZip"]
               /\ UNCHANGED resp
    /\ UNCHANGED <<config, privileged, fs, req, loc, touched, overlap, run, first>>

\* The temp directory once the deferred os.Remove(tempFile.Name()) has run.
RemoveTemp(t, name) == [n \in DOMAIN t \ {name} |-> t[n]]

\* A handler that reports success whatever extractZip returned.
handleDeployExtractedIgnoringErr(r) ==
    /\ pc[r] = "extracted"
    /\ resp' = [resp EXCEPT ![r] =
                   sendResponse(@, TRUE,
                       Message("Successfully initialized %s site template at %s",
                               0, loc[r].exportType, loc[r].deployPath, Nil), 200)]
    /\ tmp' = RemoveTemp(tmp, TemplateTemp(r))
    /\ pc' = [pc EXCEPT ![r] = "done"]
    /\ UNCHANGED <<config, privileged, fs, req, loc, touched, spilled, faulted,
                   overlap, run, first>>

\* Lines 222-230: what handleDeploy makes of extractZip's result.
handleDeployExtracted(r) ==
    /\ pc[r] = "extracted"
    /\ resp' = [resp EXCEPT ![r] =
                   IF loc[r].err # Nil
                       THEN sendResponse(@, FALSE,
                                Message("Error extracting ZIP file: %v",
                                        0, <<>>, <<>>, loc[r].err), 500)
                   ELSE sendResponse(@, TRUE,
                            Message("Successfully initialized %s site template at %s",
                                    0, loc[r].exportType, loc[r].deployPath, Nil), 200)]
    /\ tmp' = RemoveTemp(tmp, TemplateTemp(r))
    /\ pc' = [pc EXCEPT ![r] = "done"]
    /\ UNCHANGED <<config, privileged, fs, req, loc, touched, spilled, faulted,
                   overlap, run, first>>

\* The runtime panic of a nil pointer dereference; net/http recovers it and
\* closes the connection without a response.
Panic == [kind |-> "panic", name |-> <<>>]

\* Lines 235-241: the uploaded files; none is a bad request.  form is nil for
\* a body that is not multipart, and form.File dereferences it.
handleDeployFiles(r) ==
    /\ pc[r] = "files"
    /\ IF ~req[r].multipart THEN
           /\ loc' = [loc EXCEPT ![r].err = Panic]
           /\ pc' = [pc EXCEPT ![r] = "done"]
           /\ UNCHANGED resp
       ELSE IF Len(req[r].files) = 0 THEN
           /\ resp' = [resp EXCEPT ![r] = sendResponse(@, FALSE, Text("No files sent"), 400)]
           /\ pc' = [pc EXCEPT ![r] = "done"]
           /\ UNCHANGED loc
       ELSE
           /\ loc' = [loc EXCEPT ![r].fi = 1]
           /\ pc' = [pc EXCEPT ![r] = "loop"]
           /\ UNCHANGED resp
    /\ UNCHANGED <<config, privileged, fs, tmp, req, touched, spilled, faulted,
                   overlap, run, first>>

\* Line 248: where an uploaded file goes.
TargetPath(deployPath, fileHeader) == Join(deployPath, Base(fileHeader.Filename))

\* Lines 273-277: the record of a saved file.
FileInfo(relativePath, fileHeader) ==
    [Path |-> Join(relativePath, Base(fileHeader.Filename)),
     ContentType |-> fileHeader.ContentType,
     Size |-> fileHeader.Size]

\* What the loop does with a file whose open, create or copy failed
\* (lines 254, 262, 269): continue with the next one.
SkipFile(l, why) == [l EXCEPT !.outcome = Append(@, why), !.fi = @ + 1]

\* Lines 245-264: the next file of the loop: open the upload, create (or
\* truncate) the target.
handleDeployCreate(r) ==
    /\ pc[r] = "loop"
    /\ loc[r].fi <= Len(req[r].files)
    /\ \E fault \in {"none", "open", "create"} :
        LET fileHeader == req[r].files[loc[r].fi]
            targetPath == TargetPath(loc[r].deployPath, fileHeader)
            dst == OpenFile(fs, privileged, targetPath, 6, fault # "create")
        IN  IF fault = "open" THEN
                /\ loc' = [loc EXCEPT ![r] = SkipFile(@, "open")]
                /\ faulted' = TRUE
                /\ UNCHANGED <<fs, touched, pc, overlap>>
            ELSE IF ~dst.ok THEN
                /\ loc' = [loc EXCEPT ![r] = SkipFile(@, "create")]
                /\ faulted' = (faulted \/ fault = "create")
                /\ UNCHANGED <<fs, touched, pc, overlap>>
            ELSE
                /\ fs' = dst.fs
                /\ touched' = [touched EXCEPT ![r] = @ \cup dst.made]
                /\ loc' = [loc EXCEPT ![r].targetPath = targetPath, ![r].off = 0]
                /\ pc' = [pc EXCEPT ![r] = "copy"]
                /\ overlap' = (overlap \/ \E o \in Reqs \ {r} :
                                   pc[o] = "copy" /\ loc[o].targetPath = targetPath)
                /\ UNCHANGED faulted
    /\ UNCHANGED <<config, privileged, tmp, req, resp, spilled, run, first>>

\* A loop that returns an error response on a failed copy instead of going on
\* to the next file.
handleDeployCopyAborting(r) ==
    /\ pc[r] = "copy"
    /\ LET fileHeader == req[r].files[loc[r].fi]
           off == loc[r].off
       IN  IF off < Len(fileHeader.Data) THEN
               \E ok \in BOOLEAN :
                   IF ok THEN
                       /\ fs' = [fs EXCEPT ![loc[r].targetPath].data =
                                     WriteAt(@, off, fileHeader.Data[off + 1])]
                       /\ loc' = [loc EXCEPT ![r].off = @ + 1]
                       /\ UNCHANGED <<pc, faulted, resp>>
                   ELSE
                       /\ loc' = [loc EXCEPT ![r].outcome = Append(@, "copy")]
                       /\ resp' = [resp EXCEPT ![r] =
                                      sendResponse(@, FALSE, Text("Error copying file"), 500)]
                       /\ pc' = [pc EXCEPT ![r] = "done"]
                       /\ faulted' = TRUE
                       /\ UNCHANGED fs
           ELSE
               /\ loc' = [loc EXCEPT ![r].processedFiles =
                                         Append(@, FileInfo(loc[r].relativePath, fileHeader)),
                                     ![r].outcome = Append(@, "ok"),
                                     ![r].fi = @ + 1]
               /\ pc' = [pc EXCEPT ![r] = "loop"]
               /\ UNCHANGED <<fs, faulted, resp>>
    /\ UNCHANGED <<config, privileged, tmp, req, touched, spilled, overlap,
                   run, first>>

\* Lines 267-280: io.Copy(dst, src), one chunk a step, each written at the
\* offset of this request's descriptor; at the end of the upload the file is
\* recorded.  A failed write skips the file and leaves what was written.
handleDeployCopy(r) ==
    /\ pc[r] = "copy"
    /\ LET fileHeader == req[r].files[loc[r].fi]
           off == loc[r].off
       IN  IF off < Len(fileHeader.Data) THEN
               \E ok \in BOOLEAN :
                   IF ok THEN
                       /\ fs' = [fs EXCEPT ![loc[r].targetPath].data =
                                     WriteAt(@, off, fileHeader.Data[off + 1])]
                       /\ loc' = [loc EXCEPT ![r].off = @ + 1]
                       /\ UNCHANGED <<pc, faulted>>
                   ELSE
                       /\ loc' = [loc EXCEPT ![r] = SkipFile(@, "copy")]
                       /\ pc' = [pc EXCEPT ![r] = "loop"]
                       /\ faulted' = TRUE
                       /\ UNCHANGED fs
           ELSE
               /\ loc' = [loc EXCEPT ![r].processedFiles =
                                         Append(@, FileInfo(loc[r].relativePath, fileHeader)),
                                     ![r].outcome = Append(@, "ok"),
                                     ![r].fi = @ + 1]
               /\ pc' = [pc EXCEPT ![r] = "loop"]
               /\ UNCHANGED <<fs, faulted>>
    /\ UNCHANGED <<config, privileged, tmp, req, resp, touched, spilled, overlap,
                   run, first>>

\* Lines 283-296: the response of normal upload mode.
handleDeployRespond(r) ==
    /\ pc[r] = "loop"
    /\ loc[r].fi > Len(req[r].files)
    /\ resp' = [resp EXCEPT ![r] =
                   [@ EXCEPT !.contentType = "application/json", !.status = 200,
                             !.success = TRUE,
                             !.message = Message("Successfully saved %d files to %s",
                                                 Len(loc[r].processedFiles), <<>>,
                                                 loc[r].deployPath, Nil),
                             !.files = loc[r].processedFiles]]
    /\ pc' = [pc EXCEPT ![r] = "done"]
    /\ UNCHANGED <<config, privileged, fs, tmp, req, loc, touched, spilled,
                   faulted, overlap, run, first>>

\* Normal upload mode, from the middleware on.
Upload(r) ==
    \/ authenticateMiddleware(r)
    \/ handleDeployMethod(r)
    \/ ParseMultipartForm(r)
    \/ handleDeployResolve(r)
    \/ handleDeployMkdir(r)
    \/ handleDeployInit(r)
    \/ handleDeployFiles(r)
    \/ handleDeployCreate(r)
    \/ handleDeployCopy(r)
    \/ handleDeployRespond(r)

\* Template mode.
Template(r) ==
    \/ handleDeployTempFile(r)
    \/ extractZipOpen(r)
    \/ extractZipEntry(r)
    \/ handleDeployExtracted(r)

-----------------------------------------------------------------------------
(* Inputs *)

\* The most entries of an archive.
MaxEntries == 2

\* The configuration: the deployment root is /r, which main creates
\* (main.go:64) before it serves.
Root == <<"/", "r">>

Token == <<97, 98>>

Configs ==
    {[AuthToken |-> Token, DeploymentPath |-> Root, ExportType |-> e,
      AllowedOrigins |-> <<>>] : e \in {<<>>, <<"h">>}}

InitFS == (<<"/">> :> DirNode(7)) @@ (Root :> DirNode(7))

\* Archive entries: files and directories with and without the owner's write
\* and search bits, and names that leave the destination.
Entries ==
    {Entry(<<"a">>, 6, <<"x", "y">>), Entry(<<"a">>, 4, <<"z">>)}
    \cup {Entry(<<"d", "/">>, m, <<>>) : m \in {7, 5}}
    \cup {Entry(<<"d", "/", "a">>, 6, <<"z">>)}
    \cup {Entry(<<".", ".", "/", "a">>, 6, <<"z">>),
          Entry(<<".">>, 6, <<"z">>),
          Entry(<<"/", "a">>, 6, <<"z">>)}

RECURSIVE SeqsUpTo(_, _)
\* The sequences over S of length at most n.
SeqsUpTo(S, n) ==
    IF n = 0 THEN {<<>>}
    ELSE LET shorter == SeqsUpTo(S, n - 1)
         IN  shorter \cup {Append(s, x) : s \in {t \in shorter : Len(t) = n - 1}, x \in S}

Archives == {Archive(es) : es \in SeqsUpTo(Entries, MaxEntries)} \cup {Malformed}

\* The harness before its first run has ended.
NotRun == [err |-> Nil, fs |-> <<>>]

\* A multipart file part of the field "files": Size in bytes, Data the
\* chunks io.Copy moves (32 KiB each).
Part(name, size, data) ==
    [Filename |-> name, ContentType |-> "text/plain", Size |-> size, Data |-> data]

\* The part of the field "template_zip".
Template_zip(size, content) == [present |-> TRUE, Size |-> size, Content |-> content]

NoTemplate == [present |-> FALSE, Size |-> 0, Content |-> Malformed]

\* A request: method, Authorization header, URL path, whether the body is
\* multipart/form-data, the form values export_type, relative_path and init,
\* the template_zip part and the files parts.
Request(m, h, p, mp, e, rp, i, z, f) ==
    [Method |-> m, Authorization |-> h, path |-> p, multipart |-> mp,
     export_type |-> e, relative_path |-> rp, init |-> i,
     template_zip |-> z, files |-> f]

NoRequest == Request("", <<>>, "", FALSE, <<>>, <<>>, "", NoTemplate, <<>>)

\* The state before any request is handled; requests[r] = NoRequest leaves r
\* idle.
InitState(cfgs, privs, requests, start) ==
    /\ config \in cfgs
    /\ privileged \in privs
    /\ fs = InitFS
    /\ tmp = <<>>
    /\ req \in requests
    /\ pc = [r \in Reqs |-> IF req[r] = NoRequest THEN "idle" ELSE start]
    /\ loc = [r \in Reqs |-> NoLocals]
    /\ resp = [r \in Reqs |-> NoResponse]
    /\ touched = [r \in Reqs |-> {}]
    /\ spilled = [r \in Reqs |-> {}]
    /\ faulted = FALSE
    /\ overlap = FALSE
    /\ run = 0
    /\ first = NotRun

\* One request, the other idle.
Single(requests) == {[r \in Reqs |-> IF r = 1 THEN q ELSE NoRequest] : q \in requests}

-----------------------------------------------------------------------------
(* The middleware in front of the three handlers *)

\* The longest token a request presents beyond the configured one.
MaxExtra == 1

RECURSIVE Pow2(_)
Pow2(n) == IF n = 0 THEN 1 ELSE 2 * Pow2(n - 1)

\* token with bit b of byte i flipped.
FlipBit(token, i, b) == [token EXCEPT ![i] = Xor(@, Pow2(b))]

\* The tokens requests present: the configured one, each of its single-bit
\* flips, its prefixes and its extensions.
Tokens ==
    {Token}
    \cup {FlipBit(Token, i, b) : i \in 1..Len(Token), b \in 0..7}
    \cup {SubSeq(Token, 1, n) : n \in 0..Len(Token)}
    \cup {Token \o ext : ext \in SeqsUpTo({32, 97}, MaxExtra)}

\* The Authorization headers: none, the Bearer scheme with each token, and
\* other schemes with the right token.
Headers ==
    {<<>>, Token}
    \cup {Bearer \o t : t \in Tokens}
    \cup {scheme \o Token : scheme \in {<<98, 101, 97, 114, 101, 114, 32>>,
                                        <<66, 101, 97, 114, 101, 114>>,
                                        <<66, 97, 115, 105, 99, 32>>,
                                        <<32>> \o Bearer}}

AuthRequests ==
    {Request(m, h, p, FALSE, <<>>, <<>>, "", NoTemplate, <<>>) :
        m \in {"OPTIONS", "GET", "POST"}, h \in Headers,
        p \in {"/deploy", "/health", "/info"}}

AuthConfigs ==
    {[AuthToken |-> t, DeploymentPath |-> Root, ExportType |-> <<>>,
      AllowedOrigins |-> o] : t \in {Token, <<>>}, o \in {<<>>, <<"*">>}}

InitAuth == InitState(AuthConfigs, {FALSE}, Single(AuthRequests), "authenticate")

NextAuth ==
    \/ authenticateMiddleware(1)
    \/ handleHealth(1)
    \/ handleInfo(1)
    \/ handleDeployMethod(1)
    \/ ParseMultipartForm(1)
    \/ handleDeployResolve(1)
    \/ handleDeployMkdir(1)
    \/ handleDeployInit(1)
    \/ handleDeployFiles(1)

SpecAuth == InitAuth /\ [][NextAuth]_vars

-----------------------------------------------------------------------------
(* The resolution of the deployment path, for every pair of parameters *)

\* The longest export_type and relative_path.
MaxPathLen == 3

PathRequests ==
    {Request("POST", Bearer \o Token, "/deploy", TRUE, e, p, "", NoTemplate, <<>>) :
        e \in StringsUpTo(MaxPathLen), p \in StringsUpTo(MaxPathLen)}

InitPath == InitState(Configs, {FALSE}, Single(PathRequests), "resolve")

NextPath == handleDeployResolve(1)

SpecPath == InitPath /\ [][NextPath]_vars

-----------------------------------------------------------------------------
(* One /deploy request, from the middleware to its response *)

\* The most parts of the field "files".
MaxFiles == 2

\* A size beyond maxMemory.
Oversize == MaxMemory + 1

\* Uploads: a plain name, a name with a directory and more bytes than the
\* parser keeps in memory, and the name "..".
UploadParts ==
    {Part(<<"a">>, 10, <<"x", "y">>),
     Part(<<"d", "/", "b">>, Oversize, <<"z">>),
     Part(<<".", ".">>, 20, <<"z">>)}

Templates ==
    {NoTemplate,
     Template_zip(10, Archive(<<Entry(<<"a">>, 6, <<"x", "y">>),
                                Entry(<<"d", "/", "a">>, 6, <<"z">>)>>)),
     Template_zip(10, Archive(<<Entry(<<"a">>, 6, <<"z">>),
                                Entry(<<".", ".", "/", "a">>, 6, <<"z">>),
                                Entry(<<"d", "/">>, 7, <<>>)>>)),
     Template_zip(10, Malformed)}

DeployRequests ==
    {Request("POST", Bearer \o Token, "/deploy", TRUE, e, p, i, z, f) :
        e \in {<<>>, <<"e">>, <<".", ".">>},
        p \in {<<>>, <<"a">>, <<"a", "/", ".", ".">>},
        i \in {"true", "false"},
        z \in Templates,
        f \in SeqsUpTo(UploadParts, MaxFiles)}
    \cup {Request(m, Bearer \o Token, "/deploy", FALSE, <<"e">>, <<>>, i, NoTemplate, <<>>) :
            m \in {"POST", "GET"}, i \in {"true", "false"}}

\* The configured export type matters to a request that names none.
InitDeploy ==
    /\ InitState(Configs, {FALSE}, Single(DeployRequests), "authenticate")
    /\ config.ExportType # <<>> => req[1].export_type = <<>>

Next == Upload(1) \/ Template(1)

Spec == InitDeploy /\ [][Next]_vars

-----------------------------------------------------------------------------
(* Two /deploy requests that upload a file of the same name *)

\* a 2-chunk and a 3-chunk upload of the file "a" into the same directory.
ConcurrentRequests ==
    {[r \in Reqs |->
        Request("POST", Bearer \o Token, "/deploy", TRUE, <<"e">>, <<>>, "false", NoTemplate,
                <<Part(<<"a">>, 10, IF r = 1 THEN <<"p", "q">> ELSE <<"u", "v", "w">>)>>)]}

InitConc == InitState(Configs, {FALSE}, ConcurrentRequests, "authenticate")

NextConc == \E r \in Reqs : Upload(r)

SpecConc == InitConc /\ [][NextConc]_vars

-----------------------------------------------------------------------------
(* extractZip on its own: two runs of one archive into one destination *)

\* The destinations: an empty directory, a directory yet to be made, the
\* filesystem root.
DestDirs == {Root, <<"/", "r", "/", "h">>, <<"/">>}

InitExtract ==
    /\ config \in {c \in Configs : c.ExportType = <<>>}
    /\ privileged \in BOOLEAN
    /\ fs = InitFS
    /\ \E zipFile \in Archives : tmp = (TemplateTemp(1) :> zipFile)
    /\ req = [r \in Reqs |-> NoRequest]
    /\ pc = [r \in Reqs |-> IF r = 1 THEN "extractZip" ELSE "idle"]
    /\ \E destDir \in DestDirs :
           loc = [r \in Reqs |-> IF r = 1 THEN [NoLocals EXCEPT !.deployPath = destDir]
                                 ELSE NoLocals]
    /\ resp = [r \in Reqs |-> NoResponse]
    /\ touched = [r \in Reqs |-> {}]
    /\ spilled = [r \in Reqs |-> {}]
    /\ faulted = FALSE
    /\ overlap = FALSE
    /\ run = 1
    /\ first = NotRun

\* The second call of extractZip, with the same archive and destination.
Rerun ==
    /\ pc[1] = "extracted"
    /\ run = 1
    /\ run' = 2
    /\ first' = [err |-> loc[1].err, fs |-> fs]
    /\ pc' = [pc EXCEPT ![1] = "extractZip"]
    /\ loc' = [loc EXCEPT ![1].err = Nil, ![1].zi = 0]
    /\ UNCHANGED <<config, privileged, fs, tmp, req, resp, touched, spilled,
                   faulted, overlap>>

NextExtract ==
    \/ extractZipOpen(1)
    \/ extractZipEntry(1)
    \/ Rerun

SpecExtract == InitExtract /\ [][NextExtract]_vars

-----------------------------------------------------------------------------
(* Claims *)

\* The requests that were received.
Active == {r \in Reqs : req[r] # NoRequest}

\* C1: a request other than OPTIONS reaches its handler only with the header
\* "Bearer " + the configured token, byte for byte; without the Bearer prefix
\* it ends 401 "Invalid authentication", with another token 401 "Invalid
\* token", and in both cases no handler has run.
C1_AuthGate ==
    \A r \in Active :
        LET h == req[r].Authorization
            bearer == Len(h) >= Len(Bearer) /\ SubSeq(h, 1, Len(Bearer)) = Bearer
            exact == h = Bearer \o config.AuthToken
        IN  /\ loc[r].next # "" => req[r].Method # "OPTIONS" /\ exact
            /\ req[r].Method # "OPTIONS" /\ ~exact =>
                   /\ pc[r] \in {"authenticate", "done"}
                   /\ loc[r].next = ""
                   /\ pc[r] = "done" =>
                          /\ resp[r].status = 401
                          /\ ~resp[r].success
                          /\ resp[r].message =
                                 Text(IF bearer THEN "Invalid token" ELSE "Invalid authentication")
            /\ req[r].Method # "OPTIONS" /\ exact /\ pc[r] # "authenticate" =>
                   loc[r].next = Handler(req[r].path)

\* C1's case: a token with one bit flipped was turned away, and the right
\* token (in another run) let the handler answer.
C1_Witness ==
    \E r \in Active :
        /\ pc[r] = "done"
        /\ req[r].Method = "GET"
        /\ req[r].Authorization = Bearer \o FlipBit(Token, 2, 3)
        /\ config.AuthToken = Token
        /\ resp[r].status = 401

\* relativePath has an element "..".
HasDotDotElement(relativePath) ==
    \E i \in 1..Len(Split(relativePath)) : Split(relativePath)[i] = DotDot

\* C2: a request whose relative_path has a ".." element never mutates the
\* filesystem (no directory, no temp file, no file write) and ends 400.
C2_NoMutationOnTraversal ==
    \A r \in Active :
        HasDotDotElement(req[r].relative_path) =>
            /\ touched[r] = {}
            /\ spilled[r] = {}
            /\ pc[r] = "done" /\ req[r].Method = "POST" => resp[r].status = 400

\* The entry of index j of the archive request r extracts lands here.
EntryPath(r, j) == Join(loc[r].deployPath, tmp[TemplateTemp(r)].File[j].Name)

\* path lies below dir and is not dir.
StrictlyWithin(path, dir) == Within(path, dir) /\ Depth(path) > Depth(dir)

\* C3: extraction never creates or writes a path outside destDir, and it never
\* gets past an entry whose joined, normalized path is not strictly inside
\* destDir: it stops there with the path-safety error that names the entry.
C3_ZipSlip ==
    \A r \in Active \cup {1} :
        /\ \A p \in touched[r] : Within(p, loc[r].deployPath)
        /\ pc[r] \in {"entry", "extracted"} /\ tmp[TemplateTemp(r)].valid =>
               \A j \in 1..Len(tmp[TemplateTemp(r)].File) :
                   j <= loc[r].zi /\ ~StrictlyWithin(EntryPath(r, j), loc[r].deployPath) =>
                       /\ j = loc[r].zi
                       /\ pc[r] = "extracted" =>
                              loc[r].err = IllegalPath(tmp[TemplateTemp(r)].File[j].Name)

\* C3's case: an entry "../a" after an entry that was written stopped the
\* extraction.
C3_Witness ==
    /\ pc[1] = "extracted"
    /\ loc[1].zi = 2
    /\ loc[1].err = IllegalPath(<<".", ".", "/", "a">>)
    /\ touched[1] # {}

RECURSIVE Manifest(_, _, _, _)
\* The records of the files of index i.. whose outcome is "ok", in order.
Manifest(relativePath, files, outcome, i) ==
    IF i > Len(outcome) THEN <<>>
    ELSE (IF outcome[i] = "ok"
            THEN <<[Path |-> Join(relativePath, Base(files[i].Filename)),
                    ContentType |-> files[i].ContentType, Size |-> files[i].Size]>>
          ELSE <<>>)
         \o Manifest(relativePath, files, outcome, i + 1)

\* C4: in normal upload mode a file that fails to open, to be created or to
\* be copied is skipped and the next one is processed; the request ends 200,
\* its manifest being the files that succeeded, in submission order, and the
\* count of the message the length of the manifest.
C4_PerFileSkip ==
    \A r \in Active :
        loc[r].fi >= 1 =>
            /\ Len(loc[r].outcome) = loc[r].fi - 1
            /\ loc[r].processedFiles =
                   Manifest(req[r].relative_path, req[r].files, loc[r].outcome, 1)
            /\ pc[r] = "done" =>
                   /\ Len(loc[r].outcome) = Len(req[r].files)
                   /\ resp[r].status = 200
                   /\ resp[r].success
                   /\ resp[r].files = loc[r].processedFiles
                   /\ resp[r].message.n = Len(resp[r].files)

\* C4's case: the first file failed in its copy, the second was saved.
C4_Witness ==
    \E r \in Active :
        /\ pc[r] = "done"
        /\ loc[r].outcome = <<"copy", "ok">>
        /\ Len(resp[r].files) = 1

C6_Idempotent ==
    run = 2 /\ pc[1] = "extracted" /\ ~faulted /\ first.err = Nil =>
        /\ loc[1].err = Nil
        /\ fs = first.fs

\* Both requests have saved their file.
BothSaved ==
    \A r \in Reqs : pc[r] = "done" /\ resp[r].status = 200 /\ Len(resp[r].files) = 1

\* The content of the file both requests uploaded.
Uploaded == fs[loc[1].targetPath].data

\* C7 as claimed: once both requests have finished, the file is the complete
\* upload of one of them.
C7_LastWriterWins ==
    BothSaved => \E r \in Reqs : Uploaded = req[r].files[1].Data

\* C7 as amended: every chunk of the file is the chunk one of the two requests
\* wrote at that offset, or a gap; and the file is the complete upload of one
\* of them when neither created it while the other was copying into it.
C7_ChunkwiseLastWriter ==
    BothSaved =>
        /\ \A i \in 1..Len(Uploaded) :
               \/ Uploaded[i] = Hole
               \/ \E r \in Reqs : i <= Len(req[r].files[1].Data)
                                  /\ Uploaded[i] = req[r].files[1].Data[i]
        /\ ~overlap => \E r \in Reqs : Uploaded = req[r].files[1].Data

\* C7's case: both requests finished and the file mixes their uploads.
C7_Witness ==
    /\ BothSaved
    /\ overlap
    /\ \A r \in Reqs : Uploaded # req[r].files[1].Data

\* C8: the deployment path of a request that passed validation is
\* root/exportType, or below it.
C8_DeployPathContained ==
    \A r \in Active :
        pc[r] = "MkdirAll" =>
            Within(loc[r].deployPath,
                   Clean(config.DeploymentPath \o Separator \o ExportTypeOf(req[r], config)))

\* C8's case: an absolute-looking relative path, after an export type with a
\* "." element, was resolved below root/exportType.
C8_Witness ==
    \E r \in Active :
        /\ pc[r] = "MkdirAll"
        /\ req[r].relative_path = <<"/", "a">>
        /\ req[r].export_type = <<"a", "/", ".">>
        /\ loc[r].deployPath = <<"/", "r", "/", "a", "/", "a">>

\* The paths the entries 1..k of the archive of r may create: the entries'
\* paths and their ancestors.
EntryPaths(r, k) ==
    {p \in touched[r] :
        \/ Within(loc[r].deployPath, p)
        \/ \E j \in 1..k :
               Within(Join(loc[r].deployPath, req[r].template_zip.Content.File[j].Name), p)}

\* C9: when entry k fails, extraction stops there: the entries before k are
\* on disk, nothing of an entry after k is, destDir is still there, and the
\* request ends 500.
C9_FailFastNoRollback ==
    \A r \in Active :
        /\ pc[r] \in {"extracted", "done"}
        /\ loc[r].err.kind \in {"illegal file path", "io"}
        /\ loc[r].zi >= 1
        => LET File == req[r].template_zip.Content.File
               k == loc[r].zi
           IN  /\ \A j \in 1..(k - 1) :
                      LET p == Join(loc[r].deployPath, File[j].Name)
                      IN  /\ p \in DOMAIN fs
                          /\ fs[p].kind = IF IsDir(File[j]) THEN "dir" ELSE "file"
                          /\ (\A i \in (j + 1)..k :
                                  Join(loc[r].deployPath, File[i].Name) # p)
                                 => fs[p].data = File[j].Data
               /\ touched[r] = EntryPaths(r, k)
               /\ loc[r].deployPath \in DOMAIN fs
               /\ pc[r] = "done" => resp[r].status = 500 /\ ~resp[r].success

\* C9's case: the second entry failed after the first was written, and the
\* request ended.
C9_Witness ==
    \E r \in Active :
        /\ pc[r] = "done"
        /\ loc[r].err.kind = "illegal file path"
        /\ loc[r].zi = 2
        /\ \E p \in touched[r] : fs[p].kind = "file"

\* C10: whatever export_type, relative_path and file names a request gives,
\* what handleDeploy creates or writes lies inside the deployment root.
C10_InsideRoot ==
    \A r \in Active : \A p \in touched[r] : Within(p, config.DeploymentPath)

=============================================================================
